---- MODULE Spec2Model ----
(***************************************************************************)
(* Model of generate_report.py: the import fallback (lines 6-16), the      *)
(* straight-line construction of the report document (lines 19-51), the    *)
(* save to the fixed output path (lines 54-55) and the confirmation        *)
(* message (line 56).  One process run is one execution of the script; the *)
(* file at the output path and the installed packages outlive the process. *)
(***************************************************************************)
EXTENDS Integers, Sequences, FiniteSets, TLC

VARIABLES
    pc,            \* phase of the script: "import", "install", "reimport", "run", "exited"
    ip,            \* index into Program of the next statement of lines 19-56
    doc,           \* the module-level name doc: [exists, blocks]
    env,           \* module-level names bound to blocks (title, intro, ...): name -> block index, 0 = unbound
    stdout,        \* messages printed by this process
    exitStatus,    \* -1 while running, then the process's exit status
    error,         \* the unhandled exception that ended the process, "none" otherwise
    file,          \* what the file system holds at output_path
    libInstalled,  \* whether "import docx" succeeds in this interpreter
    run,           \* number of the current process run
    fileAtStart,   \* history: file when the current process started
    firstImport,   \* history: outcome of the try block of lines 6-9
    installResult, \* history: outcome of subprocess.check_call (line 13)
    nInstall,      \* history: calls of subprocess.check_call in this process
    nReimport,     \* history: executions of the imports of lines 14-16 in this process
    nDocument,     \* history: calls of Document() in this process
    nSave,         \* history: calls of doc.save in this process
    saveReturned,  \* history: doc.save returned normally in this process
    outputs        \* history: file content at each exit with status 0, in run order

vars == <<pc, ip, doc, env, stdout, exitStatus, error, file, libInstalled, run,
          fileAtStart, firstImport, installResult, nInstall, nReimport,
          nDocument, nSave, saveReturned, outputs>>

\* Number of process runs explored (the script is rerun against the same path).
MaxRuns == 2

(* Literals of the script *)

TitleText == "Bainum Project Annual Report"
Heading1Text == "How It Was Built"
Heading2Text == "What It Does"
Heading3Text == "Future Development"
IntroText == "The Bainum Project Dashboard is a comprehensive web-based platform ..."
BuiltText == "The dashboard was developed using a modern full-stack architecture ..."
Does1Text == "The dashboard provides a comprehensive suite of tools ..."
Does2Text == "The platform visualizes this data through interactive dashboards ..."
Future1Text == "Moving forward, we plan to enhance the dashboard ..."
Future2Text == "Additional planned features include longitudinal trend analysis ..."
output_path == "/home/vashist/Desktop/Desktop/Anita Zucker Center/Bainum Project/Main/Bainum_Project_Annual_Report.docx"
InstallingMessage == "python-docx not installed. Installing..."
CENTER == "CENTER"

VarNames == {"title", "intro", "heading1", "built_para", "heading2", "does_para1",
             "does_para2", "heading3", "future_para1", "future_para2"}

\* Pt(11): a length given in points.  NoSize is a run's size before any assignment (None).
Pt(n) == [unit |-> "pt", n |-> n]
NoSize == [unit |-> "none", n |-> 0]

Stmt(line, op, var, text, arg) ==
    [line |-> line, op |-> op, var |-> var, text |-> text, arg |-> arg]

\* Lines 19-51, one entry per call or assignment, in execution order.
Construction ==
    << Stmt(19, "Document", "doc", "", 0),
       Stmt(22, "add_heading", "title", TitleText, 0),
       Stmt(23, "alignment", "title", CENTER, 0),
       Stmt(26, "add_paragraph", "", "", 0),
       Stmt(29, "add_paragraph", "intro", "", 0),
       Stmt(30, "add_run", "intro", IntroText, 0),
       Stmt(30, "font_size", "intro", "", 11),
       Stmt(33, "add_heading", "heading1", Heading1Text, 1),
       Stmt(34, "add_paragraph", "built_para", "", 0),
       Stmt(35, "add_run", "built_para", BuiltText, 0),
       Stmt(35, "font_size", "built_para", "", 11),
       Stmt(38, "add_heading", "heading2", Heading2Text, 1),
       Stmt(39, "add_paragraph", "does_para1", "", 0),
       Stmt(40, "add_run", "does_para1", Does1Text, 0),
       Stmt(40, "font_size", "does_para1", "", 11),
       Stmt(42, "add_paragraph", "does_para2", "", 0),
       Stmt(43, "add_run", "does_para2", Does2Text, 0),
       Stmt(43, "font_size", "does_para2", "", 11),
       Stmt(46, "add_heading", "heading3", Heading3Text, 1),
       Stmt(47, "add_paragraph", "future_para1", "", 0),
       Stmt(48, "add_run", "future_para1", Future1Text, 0),
       Stmt(48, "font_size", "future_para1", "", 11),
       Stmt(50, "add_paragraph", "future_para2", "", 0),
       Stmt(51, "add_run", "future_para2", Future2Text, 0),
       Stmt(51, "font_size", "future_para2", "", 11) >>

\* A script that keeps appending after the save and the message.
FinishThenAppend ==
    << Stmt(55, "save", "doc", output_path, 0),
       Stmt(56, "print", "", output_path, 0),
       Stmt(57, "add_paragraph", "", "", 0) >>

\* A script that prints the message before it saves.
FinishPrintFirst ==
    << Stmt(56, "print", "", output_path, 0),
       Stmt(55, "save", "doc", output_path, 0) >>

\* Lines 53-56: the save, then the confirmation message.
Finish ==
    << Stmt(55, "save", "doc", output_path, 0),
       Stmt(56, "print", "", output_path, 0) >>

\* Lines 19-56 in execution order.
Program == Construction \o Finish

(* The document: an ordered sequence of blocks.  Both kinds of block carry *)
(* the same fields so that blocks can be compared.                         *)
Heading(text, level) ==
    [kind |-> "heading", text |-> text, level |-> level, alignment |-> "none", runs |-> <<>>]

Paragraph ==
    [kind |-> "paragraph", text |-> "", level |-> -1, alignment |-> "none", runs |-> <<>>]

Run(text) == [text |-> text, size |-> NoSize]

EmptyDocument == [exists |-> TRUE, blocks |-> <<>>]
NoDocument == [exists |-> FALSE, blocks |-> <<>>]

\* add_heading putting the new heading in front of the document.
add_heading_first(blocks, text, level) == <<Heading(text, level)>> \o blocks

\* add_heading ignoring the level it is given (the library's default level is 1).
add_heading_default_level(blocks, text, level) == Append(blocks, Heading(text, 1))

\* doc.add_heading(text, level): a new heading at the end of the document.
add_heading(blocks, text, level) == Append(blocks, Heading(text, level))

\* add_paragraph losing the new paragraph.
add_paragraph_dropped(blocks) == blocks

\* doc.add_paragraph(): a new paragraph without runs at the end of the document.
add_paragraph(blocks) == Append(blocks, Paragraph)

\* add_run splitting the text over two runs.
add_run_twice(blocks, i, text) ==
    [blocks EXCEPT ![i].runs = Append(Append(@, Run(text)), Run(text))]

\* <name>.add_run(text): a new run, its size not set, at the end of block i.
add_run(blocks, i, text) == [blocks EXCEPT ![i].runs = Append(@, Run(text))]

\* The size assignment left out.
set_font_size_skipped(blocks, i, size) == blocks

\* <run>.font.size = size, on the run add_run has just returned (the last run of block i).
set_font_size(blocks, i, size) ==
    IF Len(blocks[i].runs) = 0 THEN blocks
    ELSE [blocks EXCEPT ![i].runs = [@ EXCEPT ![Len(@)].size = size]]

\* title.alignment = a
set_alignment(blocks, i, a) == [blocks EXCEPT ![i].alignment = a]

\* Binding of the result of an append to a module-level name ("" binds nothing).
Bind(e, name, i) == IF name = "" THEN e ELSE [e EXCEPT ![name] = i]

(* The file system at output_path *)
NoFile == [kind |-> "absent", blocks |-> <<>>]
OtherFile == [kind |-> "other", blocks |-> <<>>]
PartialFile == [kind |-> "partial", blocks |-> <<>>]

\* A save that adds to the file it finds instead of replacing it.
save_appending(d, old) == [kind |-> "doc", blocks |-> old.blocks \o d.blocks]

\* doc.save(path) returning normally: the file is replaced by the document's blocks.
save(d, old) == [kind |-> "doc", blocks |-> d.blocks]

\* The ways doc.save can raise.
SaveErrors == {"nodir", "unwritable", "diskfull"}

\* What a raising doc.save can leave at the path: nothing is opened when the
\* directory is missing or the open is refused; a full disk may leave a
\* truncated file.
FailedWrite(reason, old) ==
    IF reason = "diskfull" THEN {old, PartialFile} ELSE {old}

\* print(f"Report generated successfully: {output_path}")
ConfirmationMessage(path) == <<"Report generated successfully: ", path>>

Cur == Program[ip]
Running(op) == pc = "run" /\ ip \in 1..Len(Program) /\ Cur.op = op

procHist == <<firstImport, installResult, nInstall, nReimport, nDocument, nSave, saveReturned>>
world == <<file, libInstalled, run, fileAtStart, outputs>>

Init ==
    /\ pc = "import"
    /\ ip = 0
    /\ doc = NoDocument
    /\ env = [n \in VarNames |-> 0]
    /\ stdout = <<>>
    /\ exitStatus = -1
    /\ error = "none"
    /\ file \in {NoFile, OtherFile}
    /\ libInstalled \in BOOLEAN
    /\ run = 1
    /\ fileAtStart = file
    /\ firstImport = "pending"
    /\ installResult = "none"
    /\ nInstall = 0
    /\ nReimport = 0
    /\ nDocument = 0
    /\ nSave = 0
    /\ saveReturned = FALSE
    /\ outputs = <<>>

\* An exception nothing catches: traceback, exit status 1.
Terminate(e) ==
    /\ pc' = "exited"
    /\ exitStatus' = 1
    /\ error' = e

\* Lines 6-9: the imports succeed.
ImportOk ==
    /\ pc = "import"
    /\ libInstalled
    /\ pc' = "run"
    /\ ip' = 1
    /\ firstImport' = "ok"
    /\ UNCHANGED <<doc, env, stdout, exitStatus, error, world,
                   installResult, nInstall, nReimport, nDocument, nSave, saveReturned>>

\* Lines 6-11: ImportError is caught and the notice is printed.
ImportFail ==
    /\ pc = "import"
    /\ ~libInstalled
    /\ pc' = "install"
    /\ stdout' = Append(stdout, <<InstallingMessage>>)
    /\ firstImport' = "failed"
    /\ UNCHANGED <<ip, doc, env, exitStatus, error, world,
                   installResult, nInstall, nReimport, nDocument, nSave, saveReturned>>

\* Lines 12-13: pip3 exits 0.  Whether the package is then importable by this
\* interpreter is decided by the environment.
InstallOk ==
    /\ pc = "install"
    /\ nInstall' = nInstall + 1
    /\ installResult' = "ok"
    /\ \E visible \in BOOLEAN : libInstalled' = visible
    /\ pc' = "reimport"
    /\ UNCHANGED <<ip, doc, env, stdout, exitStatus, error, file, run, fileAtStart, outputs,
                   firstImport, nReimport, nDocument, nSave, saveReturned>>

\* The installer's failure going unnoticed (subprocess.call in place of check_call).
InstallFailIgnored ==
    /\ pc = "install"
    /\ nInstall' = nInstall + 1
    /\ installResult' = "failed"
    /\ pc' = "reimport"
    /\ UNCHANGED <<ip, doc, env, stdout, exitStatus, error, world,
                   firstImport, nReimport, nDocument, nSave, saveReturned>>

\* Lines 12-13: check_call raises (pip3 missing or exiting non-zero); the
\* exception is raised inside the except clause and nothing catches it.
InstallFail ==
    /\ pc = "install"
    /\ nInstall' = nInstall + 1
    /\ installResult' = "failed"
    /\ Terminate("CalledProcessError")
    /\ UNCHANGED <<ip, doc, env, stdout, world,
                   firstImport, nReimport, nDocument, nSave, saveReturned>>

\* Lines 14-16: the imports are executed again and succeed.
ReimportOk ==
    /\ pc = "reimport"
    /\ libInstalled
    /\ nReimport' = nReimport + 1
    /\ pc' = "run"
    /\ ip' = 1
    /\ UNCHANGED <<doc, env, stdout, exitStatus, error, world,
                   firstImport, installResult, nInstall, nDocument, nSave, saveReturned>>

\* Lines 14-16: the imports fail again; the ImportError is not caught.
ReimportFail ==
    /\ pc = "reimport"
    /\ ~libInstalled
    /\ nReimport' = nReimport + 1
    /\ Terminate("ImportError")
    /\ UNCHANGED <<ip, doc, env, stdout, world,
                   firstImport, installResult, nInstall, nDocument, nSave, saveReturned>>

\* Line 19: doc = Document()
CreateDocument ==
    /\ Running("Document")
    /\ doc' = EmptyDocument
    /\ nDocument' = nDocument + 1
    /\ ip' = ip + 1
    /\ UNCHANGED <<pc, env, stdout, exitStatus, error, world,
                   firstImport, installResult, nInstall, nReimport, nSave, saveReturned>>

\* Lines 22, 33, 38, 46: <name> = doc.add_heading(text, level)
AddHeading ==
    /\ Running("add_heading")
    /\ doc' = [doc EXCEPT !.blocks = add_heading(@, Cur.text, Cur.arg)]
    /\ env' = Bind(env, Cur.var, Len(doc'.blocks))
    /\ ip' = ip + 1
    /\ UNCHANGED <<pc, stdout, exitStatus, error, world, procHist>>

\* Line 23: title.alignment = WD_ALIGN_PARAGRAPH.CENTER
SetAlignment ==
    /\ Running("alignment")
    /\ doc' = [doc EXCEPT !.blocks = set_alignment(@, env[Cur.var], Cur.text)]
    /\ ip' = ip + 1
    /\ UNCHANGED <<pc, env, stdout, exitStatus, error, world, procHist>>

\* Lines 26, 29, 34, 39, 42, 47, 50: [<name> =] doc.add_paragraph()
AddParagraph ==
    /\ Running("add_paragraph")
    /\ doc' = [doc EXCEPT !.blocks = add_paragraph(@)]
    /\ env' = Bind(env, Cur.var, Len(doc'.blocks))
    /\ ip' = ip + 1
    /\ UNCHANGED <<pc, stdout, exitStatus, error, world, procHist>>

\* Lines 30, 35, 40, 43, 48, 51, first half: <name>.add_run(text)
AddRun ==
    /\ Running("add_run")
    /\ doc' = [doc EXCEPT !.blocks = add_run(@, env[Cur.var], Cur.text)]
    /\ ip' = ip + 1
    /\ UNCHANGED <<pc, env, stdout, exitStatus, error, world, procHist>>

\* Lines 30, 35, 40, 43, 48, 51, second half: .font.size = Pt(11)
SetFontSize ==
    /\ Running("font_size")
    /\ doc' = [doc EXCEPT !.blocks = set_font_size(@, env[Cur.var], Pt(Cur.arg))]
    /\ ip' = ip + 1
    /\ UNCHANGED <<pc, env, stdout, exitStatus, error, world, procHist>>

ConstructionOps == {"Document", "add_heading", "alignment", "add_paragraph", "add_run", "font_size"}

\* Lines 19-51: a library call raises; no statement of the script catches it.
Raise ==
    /\ pc = "run"
    /\ ip \in 1..Len(Program)
    /\ Cur.op \in ConstructionOps
    /\ Terminate("Exception")
    /\ UNCHANGED <<ip, doc, env, stdout, world, procHist>>

\* Line 55: doc.save(output_path) returns.
SaveOk ==
    /\ Running("save")
    /\ nSave' = nSave + 1
    /\ saveReturned' = TRUE
    /\ file' = save(doc, file)
    /\ ip' = ip + 1
    /\ UNCHANGED <<pc, doc, env, stdout, exitStatus, error, libInstalled, run, fileAtStart,
                   outputs, firstImport, installResult, nInstall, nReimport, nDocument>>

\* The save's exception swallowed by a handler: the script goes on to line 56.
SaveFailCaught(reason) ==
    /\ Running("save")
    /\ reason = "nodir" => file = NoFile
    /\ nSave' = nSave + 1
    /\ file' \in FailedWrite(reason, file)
    /\ error' = reason
    /\ ip' = ip + 1
    /\ UNCHANGED <<pc, doc, env, stdout, exitStatus, libInstalled, run, fileAtStart, outputs,
                   firstImport, installResult, nInstall, nReimport, nDocument, saveReturned>>

\* Line 55: doc.save(output_path) raises; the script has no handler around it.
\* A missing parent directory implies no file at the path.
SaveFail(reason) ==
    /\ Running("save")
    /\ reason = "nodir" => file = NoFile
    /\ nSave' = nSave + 1
    /\ file' \in FailedWrite(reason, file)
    /\ Terminate(reason)
    /\ UNCHANGED <<ip, doc, env, stdout, libInstalled, run, fileAtStart, outputs,
                   firstImport, installResult, nInstall, nReimport, nDocument, saveReturned>>

\* Line 56: print(f"Report generated successfully: {output_path}")
PrintConfirmation ==
    /\ Running("print")
    /\ stdout' = Append(stdout, ConfirmationMessage(Cur.text))
    /\ ip' = ip + 1
    /\ UNCHANGED <<pc, doc, env, exitStatus, error, world, procHist>>

\* End of the script: the interpreter exits with status 0.
Exit ==
    /\ pc = "run"
    /\ ip = Len(Program) + 1
    /\ pc' = "exited"
    /\ exitStatus' = 0
    /\ outputs' = Append(outputs, file)
    /\ UNCHANGED <<ip, doc, env, stdout, error, file, libInstalled, run, fileAtStart, procHist>>

\* The script is started again: a new process, the same file system.
Restart ==
    /\ pc = "exited"
    /\ run < MaxRuns
    /\ run' = run + 1
    /\ pc' = "import"
    /\ ip' = 0
    /\ doc' = NoDocument
    /\ env' = [n \in VarNames |-> 0]
    /\ stdout' = <<>>
    /\ exitStatus' = -1
    /\ error' = "none"
    /\ fileAtStart' = file
    /\ firstImport' = "pending"
    /\ installResult' = "none"
    /\ nInstall' = 0
    /\ nReimport' = 0
    /\ nDocument' = 0
    /\ nSave' = 0
    /\ saveReturned' = FALSE
    /\ UNCHANGED <<file, libInstalled, outputs>>

SaveFails == \E reason \in SaveErrors : SaveFail(reason)

Next ==
    \/ ImportOk
    \/ ImportFail
    \/ InstallOk
    \/ InstallFail
    \/ ReimportOk
    \/ ReimportFail
    \/ CreateDocument
    \/ AddHeading
    \/ SetAlignment
    \/ AddParagraph
    \/ AddRun
    \/ SetFontSize
    \/ Raise
    \/ SaveOk
    \/ SaveFails
    \/ PrintConfirmation
    \/ Exit
    \/ Restart

Spec == Init /\ [][Next]_vars

(* Vocabulary of the properties *)

IsTitle(b) == b.kind = "heading" /\ b.level = 0
IsSection(b) == b.kind = "heading" /\ b.level >= 1
IsParagraph(b) == b.kind = "paragraph"
Count(blocks, Test(_)) == Len(SelectSeq(blocks, Test))
Texts(blocks) == [i \in 1..Len(blocks) |-> blocks[i].text]

\* The statement title.alignment = ... of the script.
AlignmentIp == CHOOSE i \in 1..Len(Program) : Program[i].op = "alignment"

\* The title heading has been appended in this process.
TitleAppended == pc \in {"run", "exited"} /\ env["title"] # 0

\* The first block is the only level-0 heading and carries the title text.
TitleFirstAndOnly(blocks) ==
    /\ Len(blocks) >= 1
    /\ IsTitle(blocks[1])
    /\ blocks[1].text = TitleText
    /\ {i \in 1..Len(blocks) : IsTitle(blocks[i])} = {1}

TitleCentered(blocks) == Len(blocks) >= 1 /\ blocks[1].alignment = CENTER

\* The document is being passed to save, or has been.
PassedToSave == Running("save") \/ nSave >= 1

\* The confirmation of line 56 is on stdout and contains the output path.
ConfirmationPrinted ==
    \E i \in 1..Len(stdout) :
        /\ stdout[i][1] = "Report generated successfully: "
        /\ \E j \in 1..Len(stdout[i]) : stdout[i][j] = output_path

\* Block i is bound to one of the script's names.
Named(i) == \E n \in VarNames : env[n] = i

\* No paragraph is under construction: the next statement appends a block,
\* saves or prints, or the script has run off its end.
BetweenBlocks ==
    /\ pc \in {"run", "exited"}
    /\ ip >= 1
    /\ \/ ip > Len(Program)
       \/ Program[ip].op \in {"add_heading", "add_paragraph", "save", "print"}

\* C1 (as amended): from the moment the title is appended, the first block is
\* the only level-0 heading and its text is 'Bainum Project Annual Report';
\* from the assignment of line 23 on, and so in the document passed to save
\* and in the saved file, its alignment is center.
C1_TitleFirstOnlyCentered ==
    /\ TitleAppended => TitleFirstAndOnly(doc.blocks)
    /\ (TitleAppended /\ ip > AlignmentIp) => TitleCentered(doc.blocks)
    /\ PassedToSave => (TitleFirstAndOnly(doc.blocks) /\ TitleCentered(doc.blocks))
    /\ saveReturned => (TitleFirstAndOnly(file.blocks) /\ TitleCentered(file.blocks))

C1_Witness == saveReturned /\ Len(file.blocks) > 1 /\ TitleCentered(file.blocks)

\* C1 as stated: in every state after the title has been appended, the first
\* block is the only level-0 heading, has the title text and is centered.
C1_Original ==
    TitleAppended => (TitleFirstAndOnly(doc.blocks) /\ TitleCentered(doc.blocks))

\* C2: the document passed to save holds exactly three headings of level >= 1,
\* all of level 1, in the order 'How It Was Built', 'What It Does',
\* 'Future Development'.
C2_ThreeSectionsInOrder ==
    /\ PassedToSave =>
          /\ Texts(SelectSeq(doc.blocks, IsSection)) = <<Heading1Text, Heading2Text, Heading3Text>>
          /\ \A i \in 1..Len(doc.blocks) : IsSection(doc.blocks[i]) => doc.blocks[i].level = 1
    /\ saveReturned =>
          /\ Texts(SelectSeq(file.blocks, IsSection)) = <<Heading1Text, Heading2Text, Heading3Text>>
          /\ \A i \in 1..Len(file.blocks) : IsSection(file.blocks[i]) => file.blocks[i].level = 1

C2_Witness == Running("save") /\ Count(doc.blocks, IsSection) = 3

\* C3 (as amended): after a run to completion the saved block sequence holds
\* exactly 1 title heading, 3 section headings and 7 paragraphs (the spacing
\* paragraph without text included), 11 blocks in all.
C3_SavedBlockCounts ==
    exitStatus = 0 =>
        /\ file.kind = "doc"
        /\ Count(file.blocks, IsTitle) = 1
        /\ Count(file.blocks, IsSection) = 3
        /\ Count(file.blocks, IsParagraph) = 7
        /\ Len(file.blocks) = 11

C3_Witness == exitStatus = 0 /\ file.kind = "doc" /\ Count(file.blocks, IsParagraph) > 4

\* C3 as stated: 1 title heading, 3 section headings and 4 paragraphs.
C3_Original ==
    exitStatus = 0 =>
        /\ Count(file.blocks, IsTitle) = 1
        /\ Count(file.blocks, IsSection) = 3
        /\ Count(file.blocks, IsParagraph) = 4

\* C4: when save is called, every run of every paragraph has its font size
\* set, to 11pt; the same holds of the saved file.
C4_RunsAre11pt ==
    /\ PassedToSave =>
          \A i \in 1..Len(doc.blocks) : IsParagraph(doc.blocks[i]) =>
              \A k \in 1..Len(doc.blocks[i].runs) : doc.blocks[i].runs[k].size = Pt(11)
    /\ saveReturned =>
          \A i \in 1..Len(file.blocks) : IsParagraph(file.blocks[i]) =>
              \A k \in 1..Len(file.blocks[i].runs) : file.blocks[i].runs[k].size = Pt(11)

C4_Witness ==
    /\ Running("save")
    /\ \E i \in 1..Len(doc.blocks) :
          /\ IsParagraph(doc.blocks[i])
          /\ Len(doc.blocks[i].runs) = 1
          /\ doc.blocks[i].runs[1].size = Pt(11)

\* C5: in one run Document() is called at most once and save at most once,
\* a run that exits with status 0 has called each exactly once, every append
\* of the script has been made when save is called, and the document does not
\* change once save has been called.
C5_CreateAppendSaveOnce ==
    /\ [](nDocument <= 1 /\ nSave <= 1)
    /\ [](exitStatus = 0 => (nDocument = 1 /\ nSave = 1))
    /\ [](PassedToSave => Len(doc.blocks) = 11)
    /\ [][(nSave >= 1 /\ run' = run) => doc' = doc]_vars
    /\ [][nSave' > nSave => (doc.exists /\ doc' = doc)]_vars

C5_Witness == exitStatus = 0 /\ nSave = 1 /\ nDocument = 1 /\ run = MaxRuns

\* C6 (as amended): a failing save is neither caught nor retried: the process
\* has terminated with status 1, save was called once, the confirmation is not
\* printed and no complete report is written: the path is left as the run
\* found it (no file when the parent directory is missing), except that a full
\* disk may leave a truncated file there.
C6_SaveFailureTerminates ==
    error \in SaveErrors =>
        /\ pc = "exited"
        /\ exitStatus = 1
        /\ nSave = 1
        /\ ~saveReturned
        /\ ~ConfirmationPrinted
        /\ file = fileAtStart \/ (error = "diskfull" /\ file = PartialFile)
        /\ error = "nodir" => file = NoFile

C6_Witness == error = "diskfull" /\ file = PartialFile /\ exitStatus = 1

\* C6 as stated: a failing save terminates the process with a non-zero status,
\* produces no file at the output path and prints no confirmation.
C6_Original ==
    error \in SaveErrors =>
        /\ pc = "exited"
        /\ exitStatus = 1
        /\ ~ConfirmationPrinted
        /\ file = fileAtStart

\* C7 (as amended): the installation is attempted at most once and only after
\* a failed first import; the import is retried at most once, exactly once
\* when the installation succeeded and never when it failed; a failed
\* installation or a failed retry terminates the process with an unhandled
\* exception before any document is created or file written.
C7_ImportFallback ==
    /\ firstImport = "ok" => (nInstall = 0 /\ nReimport = 0)
    /\ nInstall <= 1 /\ nReimport <= 1
    /\ nInstall = 1 => firstImport = "failed"
    /\ nReimport = 1 => installResult = "ok"
    /\ (installResult = "ok" /\ pc \in {"run", "exited"}) => nReimport = 1
    /\ installResult = "failed" =>
          /\ nReimport = 0
          /\ pc = "exited" /\ exitStatus = 1 /\ error = "CalledProcessError"
          /\ nDocument = 0 /\ nSave = 0 /\ ~doc.exists /\ file = fileAtStart
    /\ error = "ImportError" =>
          /\ nReimport = 1
          /\ pc = "exited" /\ exitStatus = 1
          /\ nDocument = 0 /\ nSave = 0 /\ ~doc.exists /\ file = fileAtStart
    /\ pc = "run" => (firstImport = "ok" \/ nReimport = 1)

C7_Witness == firstImport = "failed" /\ nInstall = 1 /\ nReimport = 1 /\ error = "ImportError"

\* C7 as stated: whenever the first import failed, the process ends having
\* attempted the installation at most once and retried the import exactly once.
C7_Original ==
    (firstImport = "failed" /\ pc = "exited") => (nInstall <= 1 /\ nReimport = 1)

\* C8: status 0 only with the confirmation, containing the output path,
\* printed; the confirmation only after save has returned and written the
\* document; any unhandled exception ends the process with status 1 and
\* without the confirmation.
C8_ExitAndConfirmation ==
    /\ exitStatus = 0 => (ConfirmationPrinted /\ saveReturned /\ error = "none")
    /\ ConfirmationPrinted =>
          /\ saveReturned
          /\ file.kind = "doc"
          /\ file.blocks = doc.blocks
    /\ error # "none" => (pc = "exited" /\ exitStatus = 1 /\ ~ConfirmationPrinted)
    /\ pc = "exited" => exitStatus \in {0, 1}
    /\ exitStatus = 1 => error # "none"

C8_Witness == pc = "exited" /\ exitStatus = 0 /\ ConfirmationPrinted

C10_OneRunPerNamedParagraph ==
    /\ \A i \in 1..Len(doc.blocks) : Len(doc.blocks[i].runs) <= 1
    /\ BetweenBlocks =>
          \A i \in 1..Len(doc.blocks) : IsParagraph(doc.blocks[i]) =>
              IF Named(i)
              THEN Len(doc.blocks[i].runs) = 1 /\ doc.blocks[i].runs[1].size = Pt(11)
              ELSE Len(doc.blocks[i].runs) = 0
    /\ saveReturned =>
          /\ \A i \in 1..Len(file.blocks) : Len(file.blocks[i].runs) <= 1
          /\ Cardinality({i \in 1..Len(file.blocks) :
                            IsParagraph(file.blocks[i]) /\ Len(file.blocks[i].runs) = 0}) = 1

C10_Witness ==
    /\ Running("save")
    /\ \E i, j \in 1..Len(doc.blocks) :
          /\ IsParagraph(doc.blocks[i]) /\ Len(doc.blocks[i].runs) = 0
          /\ IsParagraph(doc.blocks[j]) /\ Len(doc.blocks[j].runs) = 1

\* C10 as stated: by the time the next block is appended or save is called,
\* every paragraph holds exactly one run.
C10_Original ==
    BetweenBlocks =>
        \A i \in 1..Len(doc.blocks) : IsParagraph(doc.blocks[i]) =>
            Len(doc.blocks[i].runs) = 1

====
